---- MODULE Spec2Model ----
(***************************************************************************)
(* SocialGraph: the sharded in-memory follow graph (internal/graph), its   *)
(* per-user epochs, and the PYMK service with its LRU cache (package pymk).*)
(* Goroutines are modelled as threads; every access to shared memory (a    *)
(* lock operation, a map update under the locks, a sync.Map Load or Store) *)
(* is one step of the thread that performs it.                             *)
(***************************************************************************)
EXTENDS Integers, Sequences, FiniteSets, TLC

\* ------------------------------------------------------------------ bounds
\* calls goroutine 1 makes, one after the other
MaxCalls == 2
\* calls of goroutine 1 in the runs checked for progress
MaxLiveCalls == 1
\* calls goroutine 1 makes in the runs with PYMK calls
MaxPymkCalls == 4
\* calls of the single goroutine of the sequential runs
MaxSeqCalls == 5
\* the clock stops here
MaxTime == 2
\* PYMKConfig.CacheSize and PYMKConfig.CacheTTL (in clock ticks) of the runs
CacheSize == 2
CacheTTL == 1
\* largest k of the top-K selection runs
MaxK == 3
\* calls of the one goroutine of the ranking runs
MaxRankCalls == 5
\* largest MaxExpandPerNeighbor of the fan-out runs
MaxFanCap == 2
\* requests the HTTP server is sent
MaxHttpCalls == 2
\* Get and Set operations of the runs of the cache on its own
MaxCacheOps == 4

\* goroutine 1 serves one connection's requests in sequence; goroutine 2
\* serves a single request of another connection, concurrently
Threads == {1, 2}

\* ------------------------------------------------------- program constants
shards == 64
\* the default k of PYMK
DefaultK == 20
\* the configuration cmd/server builds the service with; the weights 1.00,
\* 0.60, 0.80 and 1.00 are kept in hundredths
MaxExpandDefault == 200
WCommon == 100
WJaccard == 60
WAA == 80
WCosine == 100

\* users 1 and shards+1 share a shard; users 2, 3 and 4 live in shards of
\* their own
Users == {1, 2, 3, 4, shards + 1}

h(u) == u % shards

ShardIds == {h(u) : u \in Users}

VARIABLES
    following,  \* shard.following of shard h(u): u -> set(dst), keys = map keys
    followers,  \* shard.followers of shard h(v): v -> set(src), keys = map keys
    mu,         \* shard.mu per shard: w = writer (0 = none), r = set of readers
    epochs,     \* MemGraph.epochs (sync.Map): user -> epoch, keys = stored keys
    th,         \* per goroutine: position in the call it runs and its locals
    calls,      \* per goroutine: calls it may still start
    applied,    \* history: per user, successful edge changes applied so far
    C,          \* Service.C: the PYMKConfig the service was built with
    ll,         \* lruCache.ll: the entries, most recently used first
    table,      \* lruCache.table: key -> position in ll of its element
    now,        \* the clock read by time.Now()
    pk,         \* per goroutine: the locals of the PYMK call it runs
    vec         \* MemEmbeds.vec: user -> embedding vector, keys = map keys

svc == <<C, ll, table, now, pk, vec>>

vars == <<following, followers, mu, epochs, th, calls, applied, svc>>

\* ---------------------------------------------------------------- helpers
Put(f, k, x) == [y \in (DOMAIN f) \cup {k} |-> IF y = k THEN x ELSE f[y]]
Drop(f, k) == [y \in (DOMAIN f) \ {k} |-> f[y]]
Lookup(f, k) == IF k \in DOMAIN f THEN f[k] ELSE {}

\* m[k].Add(x), creating the set when the key is missing (graph.go 73-77, 83)
AddTo(m, k, x) == Put(m, k, Lookup(m, k) \cup {x})

\* a plausible slip: the emptied set stays in the map
DelFrom_keepempty(m, k, x) ==
    IF k \notin DOMAIN m THEN m ELSE Put(m, k, m[k] \ {x})

\* m[k].Del(x), deleting the key when the set becomes empty (graph.go 109-112)
DelFrom(m, k, x) ==
    IF k \notin DOMAIN m THEN m
    ELSE IF m[k] \ {x} = {} THEN Drop(m, k) ELSE Put(m, k, m[k] \ {x})

\* the locals of a goroutine that is not in PYMK
NoPymk ==
    [k |-> 0, ex |-> {}, epoch |-> 0, outU |-> {}, inU |-> {},
     todoOut |-> {}, todoIn |-> {}, stats |-> << >>, res |-> << >>,
     hit |-> FALSE, readVer |-> 0, entVer |-> 0, startVer |-> 0,
     evicted |-> {}]

\* history: the adjacency maps and epochs as a call found them, kept for the
\* calls of a goroutine that runs alone
NoSnap == [on |-> FALSE, fg |-> << >>, fr |-> << >>, ep |-> << >>]
Snap(t) ==
    IF \A t2 \in Threads \ {t} : th[t2].pc = "idle" /\ calls[t2] = 0
    THEN [on |-> TRUE, fg |-> following, fr |-> followers, ep |-> epochs]
    ELSE NoSnap

\* history: the goroutine's previous call, when it was a Follow(u,v) that
\* returned true, with the state that call found; u = 0 otherwise
NoPrior == [u |-> 0, v |-> 0, g |-> NoSnap]

Idle ==
    [pc |-> "idle", op |-> "none", u |-> 0, v |-> 0, ok |-> FALSE,
     out |-> {}, n |-> 0, i |-> 0, cur |-> 0, eu0 |-> 0, ev0 |-> 0,
     g0 |-> NoSnap, prior |-> NoPrior,
     path |-> "", method |-> "", status |-> 0, hs |-> 0, uf |-> {}]

\* ------------------------------------------------------------ pure reads
UserEpoch(u) == IF u \in DOMAIN epochs THEN epochs[u] ELSE 0

Following(u) == Lookup(following, u)
Followers(u) == Lookup(followers, u)
HasEdge(u, v) == u \in DOMAIN following /\ v \in following[u]
DegreeOut(u) == Cardinality(Lookup(following, u))
DegreeIn(u) == Cardinality(Lookup(followers, u))

\* a plausible slip: the locks taken in argument order
LockOrder_unsorted(u, v) == <<h(u), h(v)>>

\* the two shard locks of a mutation, in the order they are taken: <<a, b>>
LockOrder(u, v) ==
    IF h(u) # h(v) /\ h(u) > h(v) THEN <<h(v), h(u)>> ELSE <<h(u), h(v)>>

\* a plausible slip: only the first shard is locked
NeedB_never(u, v) == FALSE

\* b != a
NeedB(u, v) == LockOrder(u, v)[2] # LockOrder(u, v)[1]

LockA_of(t) == LockOrder(th[t].u, th[t].v)[1]
LockB_of(t) == LockOrder(th[t].u, th[t].v)[2]

Held(t) == {s \in ShardIds : mu[s].w = t}

\* ----------------------------------------------------------------- Init
InitWith(quota) ==
    /\ following = << >>
    /\ followers = << >>
    /\ mu = [s \in ShardIds |-> [w |-> 0, r |-> {}]]
    /\ epochs = << >>
    /\ th = [t \in Threads |-> Idle]
    /\ calls = quota
    /\ applied = [u \in Users |-> 0]
    /\ C = [MaxExpandPerNeighbor |-> MaxExpandDefault,
            CacheSize |-> CacheSize, CacheTTL |-> CacheTTL]
    /\ ll = << >>
    /\ table = << >>
    /\ now = 0
    /\ pk = [t \in Threads |-> NoPymk]
    /\ vec = << >>

Init == InitWith([t \in Threads |-> IF t = 1 THEN MaxCalls ELSE 1])

\* --------------------------------------------------- Follow and Unfollow
Begin(t, op, u, v) ==
    /\ th[t].pc = "idle"
    /\ calls[t] > 0
    /\ calls' = [calls EXCEPT ![t] = @ - 1]

\* a plausible slip: no check for u = v
CallFollow_noself(t, u, v) ==
    /\ Begin(t, "Follow", u, v)
    /\ th' = [th EXCEPT ![t] =
                [Idle EXCEPT !.op = "Follow", !.u = u, !.v = v,
                             !.eu0 = UserEpoch(u), !.ev0 = UserEpoch(v),
                             !.g0 = Snap(t),
                             !.pc = "lockA"]]
    /\ UNCHANGED <<following, followers, mu, epochs, applied, svc>>

CallFollow(t, u, v) ==
    /\ Begin(t, "Follow", u, v)
    /\ th' = [th EXCEPT ![t] =
                [Idle EXCEPT !.op = "Follow", !.u = u, !.v = v,
                             !.eu0 = UserEpoch(u), !.ev0 = UserEpoch(v),
                             !.g0 = Snap(t),
                             !.pc = IF u = v THEN "ret" ELSE "lockA"]]
    /\ UNCHANGED <<following, followers, mu, epochs, applied, svc>>

CallUnfollow(t, u, v) ==
    /\ Begin(t, "Unfollow", u, v)
    /\ th' = [th EXCEPT ![t] =
                [Idle EXCEPT !.op = "Unfollow", !.u = u, !.v = v,
                             !.eu0 = UserEpoch(u), !.ev0 = UserEpoch(v),
                             !.g0 = Snap(t),
                             !.prior = IF th[t].prior.u = u /\ th[t].prior.v = v
                                       THEN th[t].prior ELSE NoPrior,
                             !.pc = "lockA"]]
    /\ UNCHANGED <<following, followers, mu, epochs, applied, svc>>

LockA(t) ==
    /\ th[t].pc = "lockA"
    /\ mu[LockA_of(t)].w = 0
    /\ mu[LockA_of(t)].r = {}
    /\ mu' = [mu EXCEPT ![LockA_of(t)].w = t]
    /\ th' = [th EXCEPT ![t].pc =
                IF NeedB(th[t].u, th[t].v) THEN "lockB" ELSE "fwd"]
    /\ UNCHANGED <<following, followers, epochs, calls, applied, svc>>

LockB(t) ==
    /\ th[t].pc = "lockB"
    /\ mu[LockB_of(t)].w = 0
    /\ mu[LockB_of(t)].r = {}
    /\ mu' = [mu EXCEPT ![LockB_of(t)].w = t]
    /\ th' = [th EXCEPT ![t].pc = "fwd"]
    /\ UNCHANGED <<following, followers, epochs, calls, applied, svc>>

\* a plausible slip: TouchUsers is called before the locks are released
AfterBody_touch(t) == "load"

AfterBody(t) == IF NeedB(th[t].u, th[t].v) THEN "unlockB" ELSE "unlockA"

\* a plausible slip: no check for an edge that is already there
FollowFwd_nodup(t) ==
    /\ th[t].pc = "fwd"
    /\ th[t].op = "Follow"
    /\ following' = AddTo(following, th[t].u, th[t].v)
    /\ th' = [th EXCEPT ![t].pc = "rev"]
    /\ UNCHANGED <<followers, mu, epochs, calls, applied, svc>>

\* graph.go 73-83: upsert following[u]; a duplicate returns false
FollowFwd(t) ==
    /\ th[t].pc = "fwd"
    /\ th[t].op = "Follow"
    /\ LET u == th[t].u
           v == th[t].v
       IN IF v \in Lookup(following, u)
          THEN /\ th' = [th EXCEPT ![t].pc = AfterBody(t), ![t].ok = FALSE]
               /\ UNCHANGED following
          ELSE /\ following' = AddTo(following, u, v)
               /\ th' = [th EXCEPT ![t].pc = "rev"]
    /\ UNCHANGED <<followers, mu, epochs, calls, applied, svc>>

\* a plausible slip: the reverse edge stored under the wrong user
RevAdd_swapped(u, v) == AddTo(followers, u, v)

\* graph.go 85-90: rset.Add(u) on followers[v]
RevAdd(u, v) == AddTo(followers, v, u)

\* graph.go 85-90: upsert followers[v]
FollowRev(t) ==
    /\ th[t].pc = "rev"
    /\ th[t].op = "Follow"
    /\ LET u == th[t].u
           v == th[t].v
       IN /\ followers' = RevAdd(u, v)
          /\ applied' = [applied EXCEPT ![u] = @ + 1, ![v] = @ + 1]
    /\ th' = [th EXCEPT ![t].pc = AfterBody(t), ![t].ok = TRUE]
    /\ UNCHANGED <<following, mu, epochs, calls, svc>>

\* graph.go 107-112: delete v from following[u], drop the key when empty
UnfollowFwd(t) ==
    /\ th[t].pc = "fwd"
    /\ th[t].op = "Unfollow"
    /\ LET u == th[t].u
           v == th[t].v
       IN IF u \in DOMAIN following /\ v \in following[u]
          THEN /\ following' = DelFrom(following, u, v)
               /\ th' = [th EXCEPT ![t].pc = "rev"]
          ELSE /\ th' = [th EXCEPT ![t].pc = AfterBody(t), ![t].ok = FALSE]
               /\ UNCHANGED following
    /\ UNCHANGED <<followers, mu, epochs, calls, applied, svc>>

\* graph.go 113-118: delete u from followers[v], drop the key when empty
UnfollowRev(t) ==
    /\ th[t].pc = "rev"
    /\ th[t].op = "Unfollow"
    /\ LET u == th[t].u
           v == th[t].v
       IN /\ followers' = DelFrom(followers, v, u)
          /\ applied' = [applied EXCEPT ![u] = @ + 1, ![v] = @ + 1]
    /\ th' = [th EXCEPT ![t].pc = AfterBody(t), ![t].ok = TRUE]
    /\ UNCHANGED <<following, mu, epochs, calls, svc>>

UnlockB(t) ==
    /\ th[t].pc = "unlockB"
    /\ mu' = [mu EXCEPT ![LockB_of(t)].w = 0]
    /\ th' = [th EXCEPT ![t].pc = "unlockA"]
    /\ UNCHANGED <<following, followers, epochs, calls, applied, svc>>

UnlockA(t) ==
    /\ th[t].pc = "unlockA"
    /\ mu' = [mu EXCEPT ![LockA_of(t)].w = 0]
    /\ th' = [th EXCEPT ![t].pc = IF th[t].ok THEN "load" ELSE "ret",
                        ![t].i = IF th[t].ok THEN 1 ELSE 0]
    /\ UNCHANGED <<following, followers, epochs, calls, applied, svc>>

\* ------------------------------------------------------------ TouchUsers
TouchArg(t) == IF th[t].i = 1 THEN th[t].u ELSE th[t].v

\* graph.go 171: cur := g.UserEpoch(u)
TouchLoad(t) ==
    /\ th[t].pc = "load"
    /\ th' = [th EXCEPT ![t].cur = UserEpoch(TouchArg(t)), ![t].pc = "store"]
    /\ UNCHANGED <<following, followers, mu, epochs, calls, applied, svc>>

\* graph.go 172: g.epochs.Store(u, cur+1)
TouchStore(t) ==
    /\ th[t].pc = "store"
    /\ epochs' = Put(epochs, TouchArg(t), th[t].cur + 1)
    /\ th' = [th EXCEPT ![t].cur = 0,
                        ![t].i = IF th[t].i = 1 THEN 2 ELSE 0,
                        ![t].pc = IF th[t].i = 1 THEN "load" ELSE "ret"]
    /\ UNCHANGED <<following, followers, mu, calls, applied, svc>>

\* ------------------------------------------------------------- the reads
ReadOps == {"Following", "Followers", "HasEdge", "DegreeOut", "DegreeIn"}

CallRead(t, op, u, v) ==
    /\ Begin(t, op, u, v)
    /\ op \in ReadOps
    /\ op # "HasEdge" => v = 0
    /\ th' = [th EXCEPT ![t] = [Idle EXCEPT !.op = op, !.u = u, !.v = v,
                                            !.pc = "rlock"]]
    /\ UNCHANGED <<following, followers, mu, epochs, applied, svc>>

RLock(t) ==
    /\ th[t].pc = "rlock"
    /\ mu[h(th[t].u)].w = 0
    /\ mu' = [mu EXCEPT ![h(th[t].u)].r = @ \cup {t}]
    /\ th' = [th EXCEPT ![t].pc = "read"]
    /\ UNCHANGED <<following, followers, epochs, calls, applied, svc>>

\* the body of the read and the deferred RUnlock
Read(t) ==
    /\ th[t].pc = "read"
    /\ LET op == th[t].op
           u == th[t].u
           v == th[t].v
       IN th' = [th EXCEPT
                   ![t].pc = "ret",
                   ![t].out = IF op = "Following" THEN Following(u)
                              ELSE IF op = "Followers" THEN Followers(u)
                              ELSE {},
                   ![t].ok = IF op = "HasEdge" THEN HasEdge(u, v) ELSE FALSE,
                   ![t].n = IF op = "DegreeOut" THEN DegreeOut(u)
                            ELSE IF op = "DegreeIn" THEN DegreeIn(u)
                            ELSE 0]
    /\ mu' = [mu EXCEPT ![h(th[t].u)].r = @ \ {t}]
    /\ UNCHANGED <<following, followers, epochs, calls, applied, svc>>

Return(t) ==
    /\ th[t].pc = "ret"
    /\ th' = [th EXCEPT ![t] =
                [Idle EXCEPT !.prior =
                    IF th[t].op = "Follow" /\ th[t].ok /\ th[t].g0.on
                    THEN [u |-> th[t].u, v |-> th[t].v, g |-> th[t].g0]
                    ELSE NoPrior]]
    /\ pk' = [pk EXCEPT ![t] = NoPymk]
    /\ UNCHANGED <<following, followers, mu, epochs, calls, applied,
                   C, vec, ll, table, now>>

\* ------------------------------------------------------------- lruCache
\* a key that leaves the epoch out
Key_noepoch(user, k, epoch) == [user |-> user, k |-> k, epoch |-> 0]

\* cacheKey
Key(user, k, epoch) == [user |-> user, k |-> k, epoch |-> epoch]

\* a plausible slip: the TTL is not added to the expiry instant
Entry_nottl(key, val, ver) ==
    [key |-> key, value |-> val, expiresAt |-> now, ver |-> ver,
     setAt |-> now, used |-> Len(ll) + 1]

\* cacheEntry; the other fields are history: ver is the number of edge
\* changes of the key's user that were applied when the computation read the
\* user's adjacency, setAt the time of the last Set of the key, and used the
\* rank of the entry's last successful Get or Set among those of the
\* entries in the cache (1 = the longest ago)
Entry(key, val, ver) ==
    [key |-> key, value |-> val, expiresAt |-> now + C.CacheTTL, ver |-> ver,
     setAt |-> now, used |-> Len(ll) + 1]

\* history: the ranks 1..Len(l) in the order of the last uses
Ranked(l) ==
    [i \in DOMAIN l |->
        [l[i] EXCEPT !.used =
            Cardinality({j \in DOMAIN l : l[j].used <= l[i].used})]]

\* history: the entry at pos is the one used last
Used(l, pos) == Ranked([l EXCEPT ![pos].used = Len(l) + 1])

\* a plausible slip: the element stays where it is
MoveToFront_stay(l, tb, pos) == [ll |-> l, table |-> tb]

\* list.MoveToFront, with the table's positions following the elements
MoveToFront(l, tb, pos) ==
    [ll |-> <<l[pos]>> \o [i \in 1..(Len(l) - 1) |->
                              IF i < pos THEN l[i] ELSE l[i + 1]],
     table |-> [x \in DOMAIN tb |->
                  IF tb[x] = pos THEN 1
                  ELSE IF tb[x] < pos THEN tb[x] + 1 ELSE tb[x]]]

\* list.PushFront and c.table[key] = ele
PushFront(l, tb, ent) ==
    [ll |-> <<ent>> \o l,
     table |-> Put([x \in DOMAIN tb |-> tb[x] + 1], ent.key, 1)]

\* a plausible slip: the element leaves the list and its key stays
removeElement_leak(l, tb, pos) ==
    [ll |-> [i \in 1..(Len(l) - 1) |-> IF i < pos THEN l[i] ELSE l[i + 1]],
     table |-> [x \in DOMAIN tb |-> IF tb[x] > pos THEN tb[x] - 1 ELSE tb[x]]]

\* part_000 81-85: delete(c.table, ent.key); c.ll.Remove(e)
removeElement(l, tb, pos) ==
    LET tb1 == Drop(tb, l[pos].key)
    IN [ll |-> [i \in 1..(Len(l) - 1) |->
                  IF i < pos THEN l[i] ELSE l[i + 1]],
        table |-> [x \in DOMAIN tb1 |->
                     IF tb1[x] > pos THEN tb1[x] - 1 ELSE tb1[x]]]

\* a plausible slip: nothing is evicted
removeOldest_keep(l, tb) == [ll |-> l, table |-> tb]

\* part_000 73-79
removeOldest(l, tb) ==
    IF Len(l) > 0 THEN removeElement(l, tb, Len(l))
    ELSE [ll |-> l, table |-> tb]

\* a plausible slip: an entry expires at its expiry instant, not after it
Get_eager(key) ==
    IF C.CacheSize = 0
    THEN [ok |-> FALSE, val |-> << >>, ver |-> 0, ll |-> ll, table |-> table]
    ELSE IF key \in DOMAIN table
    THEN LET ent == ll[table[key]]
         IN IF now >= ent.expiresAt
            THEN LET c == removeElement(ll, table, table[key])
                 IN [ok |-> FALSE, val |-> << >>, ver |-> 0,
                     ll |-> Ranked(c.ll), table |-> c.table]
            ELSE LET c == MoveToFront(Used(ll, table[key]), table, table[key])
                 IN [ok |-> TRUE, val |-> ent.value, ver |-> ent.ver,
                     ll |-> c.ll, table |-> c.table]
    ELSE [ok |-> FALSE, val |-> << >>, ver |-> 0, ll |-> ll, table |-> table]

\* a plausible slip: a hit refreshes the expiry of the entry
Get_refresh(key) ==
    IF C.CacheSize = 0
    THEN [ok |-> FALSE, val |-> << >>, ver |-> 0, ll |-> ll, table |-> table]
    ELSE IF key \in DOMAIN table
    THEN LET ent == ll[table[key]]
         IN IF now > ent.expiresAt
            THEN LET c == removeElement(ll, table, table[key])
                 IN [ok |-> FALSE, val |-> << >>, ver |-> 0,
                     ll |-> Ranked(c.ll), table |-> c.table]
            ELSE LET l == [ll EXCEPT
                             ![table[key]].expiresAt = now + C.CacheTTL]
                     c == MoveToFront(Used(l, table[key]), table, table[key])
                 IN [ok |-> TRUE, val |-> ent.value, ver |-> ent.ver,
                     ll |-> c.ll, table |-> c.table]
    ELSE [ok |-> FALSE, val |-> << >>, ver |-> 0, ll |-> ll, table |-> table]

\* part_000 39-54: the result and the cache after the call
Get(key) ==
    IF C.CacheSize = 0
    THEN [ok |-> FALSE, val |-> << >>, ver |-> 0, ll |-> ll, table |-> table]
    ELSE IF key \in DOMAIN table
    THEN LET ent == ll[table[key]]
         IN IF now > ent.expiresAt
            THEN LET c == removeElement(ll, table, table[key])
                 IN [ok |-> FALSE, val |-> << >>, ver |-> 0,
                     ll |-> Ranked(c.ll), table |-> c.table]
            ELSE LET c == MoveToFront(Used(ll, table[key]), table, table[key])
                 IN [ok |-> TRUE, val |-> ent.value, ver |-> ent.ver,
                     ll |-> c.ll, table |-> c.table]
    ELSE [ok |-> FALSE, val |-> << >>, ver |-> 0, ll |-> ll, table |-> table]

\* a plausible slip: the expiry of a replaced entry is left as it was
SetPresent_keepexpiry(key, val, ver) ==
    LET pos == table[key]
        ent == [ll[pos] EXCEPT !.value = val, !.ver = ver, !.setAt = now]
        c == MoveToFront(Used([ll EXCEPT ![pos] = ent], pos), table, pos)
    IN [ll |-> c.ll, table |-> c.table, evicted |-> {}]

\* part_000 58-63: the key is present: replace the value, refresh the expiry;
\* evicted is the set of entries for which onEvict was called: none
SetPresent(key, val, ver) ==
    LET pos == table[key]
        ent == [ll[pos] EXCEPT !.value = val,
                               !.expiresAt = now + C.CacheTTL,
                               !.ver = ver,
                               !.setAt = now]
        c == MoveToFront(Used([ll EXCEPT ![pos] = ent], pos), table, pos)
    IN [ll |-> c.ll, table |-> c.table, evicted |-> {}]

\* part_000 65-70: push a new entry, evict the oldest beyond the capacity;
\* evicted is the set of entries that removeOldest took out
SetInsert(key, val, ver) ==
    LET c == PushFront(ll, table, Entry(key, val, ver))
        r == IF Len(c.ll) > C.CacheSize THEN removeOldest(c.ll, c.table) ELSE c
    IN [ll |-> Ranked(r.ll), table |-> r.table,
        evicted |-> {c.ll[i] : i \in {j \in DOMAIN c.ll :
                                        c.ll[j].key \notin DOMAIN r.table}}]

\* ------------------------------------------------- PYMK: the computation
\* exact fractions <<n, d>> with d > 0, in lowest terms, for the float64
\* features and scores
RECURSIVE GCD(_, _)
GCD(a, b) == IF b = 0 THEN a ELSE GCD(b, a % b)
Frac(n, d) == IF n = 0 THEN <<0, 1>> ELSE <<n \div GCD(n, d), d \div GCD(n, d)>>
FLess(x, y) ==
    LET g == GCD(x[2], y[2])
    IN x[1] * (y[2] \div g) < y[1] * (x[2] \div g)
FAdd(x, y) ==
    LET g == GCD(x[2], y[2])
    IN Frac(x[1] * (y[2] \div g) + y[1] * (x[2] \div g), (x[2] \div g) * y[2])
FDiv(x, y) == Frac(x[1] * y[2], x[2] * y[1])
FScale(w, x) == Frac(w * x[1], x[2])
FMax(S) == CHOOSE x \in S : \A y \in S : ~FLess(x, y)

\* metrics.go 72-90
intersectCount(a, b, capAt) ==
    IF capAt > 0 /\ Cardinality(a \cap b) >= capAt
    THEN capAt ELSE Cardinality(a \cap b)
unionSize(a, b) == Cardinality(a) + Cardinality(b) - intersectCount(a, b, 0)

\* metrics.go 198-201: 1.0 / math.Log(float64(1+degN)+1e-9), in 1/10000
AATable == <<14427, 9102, 7213, 6213, 5581, 5139, 4809, 4551>>
aaWeight(degN) == IF degN > 0 THEN AATable[degN] ELSE 0

\* a plausible slip: the list is not cut
Truncations_all(nbs) == {nbs}

\* metrics.go 194-196: the first MaxExpandPerNeighbor of a list whose order
\* is the map's iteration order: any that many of its members
Truncations(nbs) ==
    IF C.MaxExpandPerNeighbor > 0 /\ Cardinality(nbs) > C.MaxExpandPerNeighbor
    THEN {S \in SUBSET nbs : Cardinality(S) = C.MaxExpandPerNeighbor}
    ELSE {nbs}

\* a plausible slip: the exclude set is not looked at
ExpandOne_noexclude(st, u, oneHop, ex, nbs, w) ==
    LET add == {c \in nbs : c # u /\ c \notin oneHop}
        old(c) == IF c \in DOMAIN st THEN st[c] ELSE [common |-> 0, aa |-> 0]
    IN [c \in (DOMAIN st) \cup add |->
          IF c \in add
          THEN [common |-> old(c).common + 1, aa |-> old(c).aa + w]
          ELSE old(c)]

\* metrics.go 202-218: count the candidates reached through one neighbour
ExpandOne(st, u, oneHop, ex, nbs, w) ==
    LET add == {c \in nbs : c # u /\ c \notin oneHop /\ c \notin ex}
        old(c) == IF c \in DOMAIN st THEN st[c] ELSE [common |-> 0, aa |-> 0]
    IN [c \in (DOMAIN st) \cup add |->
          IF c \in add
          THEN [common |-> old(c).common + 1, aa |-> old(c).aa + w]
          ELSE old(c)]

\* metrics.go 244-248
Jaccard(outU, outC) ==
    IF Cardinality(outU) > 0 \/ Cardinality(outC) > 0
    THEN Frac(intersectCount(outU, outC, 0), unionSize(outU, outC))
    ELSE <<0, 1>>

Max(S) == CHOOSE x \in S : \A y \in S : y <= x

\* an embedding vector, as read by Service.PYMK and written by PUT /embedding
Vecs == {<<1, 0>>, <<0, 1>>, <<3, 4>>}

\* MemEmbeds.Get
EGet(user) == IF user \in DOMAIN vec THEN vec[user] ELSE << >>

RECURSIVE DotTo(_, _, _)
DotTo(a, b, i) == IF i = 0 THEN 0 ELSE a[i] * b[i] + DotTo(a, b, i - 1)

\* math.Sqrt, for the squares that the norms of the vectors of the runs are
Sqrt(n) == CHOOSE r \in 0..n : r * r = n

\* metrics.go 98-111
cosine(a, b) ==
    IF Len(a) = 0 \/ Len(a) # Len(b) THEN <<0, 1>>
    ELSE LET dot == DotTo(a, b, Len(a))
             na == DotTo(a, a, Len(a))
             nb == DotTo(b, b, Len(a))
         IN IF na = 0 \/ nb = 0 THEN <<0, 1>>
            ELSE IF dot < 0 THEN <<0, 1>>
            ELSE Frac(dot, Sqrt(na) * Sqrt(nb))

\* metrics.go 229-277: features, maxima and the weighted, normalised score of
\* every candidate of user u
Scored(st, outU, u) ==
    LET jac(c) == Jaccard(outU, Following(c))
        cos(c) == IF u \in DOMAIN vec /\ c \in DOMAIN vec
                  THEN cosine(EGet(u), EGet(c)) ELSE <<0, 1>>
        maxCos == FMax({cos(c) : c \in DOMAIN st} \cup {<<0, 1>>})
        maxCommon == Max({st[c].common : c \in DOMAIN st} \cup {0})
        maxJacc == FMax({jac(c) : c \in DOMAIN st} \cup {<<0, 1>>})
        maxAA == Max({st[c].aa : c \in DOMAIN st} \cup {0})
        nCommon(c) == IF maxCommon > 0 THEN Frac(st[c].common, maxCommon)
                      ELSE <<0, 1>>
        nJ(c) == IF maxJacc[1] > 0 THEN FDiv(jac(c), maxJacc) ELSE <<0, 1>>
        nAA(c) == IF maxAA > 0 THEN Frac(st[c].aa, maxAA) ELSE <<0, 1>>
        nCos(c) == IF maxCos[1] > 0 THEN FDiv(cos(c), maxCos) ELSE <<0, 1>>
    IN [c \in DOMAIN st |->
          [id |-> c, common |-> st[c].common, jaccard |-> jac(c),
           aa |-> st[c].aa, cos |-> cos(c),
           score |-> FAdd(FAdd(FScale(WCommon, nCommon(c)),
                               FScale(WJaccard, nJ(c))),
                          FAdd(FScale(WAA, nAA(c)),
                               FScale(WCosine, nCos(c))))]]

\* a plausible slip: the heap ordered by the larger score
Less_greater(hp, i, j) == FLess(hp[j].score, hp[i].score)

\* minHeap (metrics.go 306-318) under container/heap, positions from 1
Less(hp, i, j) == FLess(hp[i].score, hp[j].score)
Swap(hp, i, j) == [hp EXCEPT ![i] = hp[j], ![j] = hp[i]]

RECURSIVE up(_, _)
up(hp, j) ==
    IF j = 1 \/ ~Less(hp, j, j \div 2) THEN hp
    ELSE up(Swap(hp, j \div 2, j), j \div 2)

RECURSIVE down(_, _, _)
down(hp, i, n) ==
    IF 2 * i > n THEN hp
    ELSE LET j == IF 2 * i + 1 <= n /\ Less(hp, 2 * i + 1, 2 * i)
                  THEN 2 * i + 1 ELSE 2 * i
         IN IF ~Less(hp, j, i) THEN hp ELSE down(Swap(hp, i, j), j, n)

HeapPush(hp, x) == up(Append(hp, x), Len(hp) + 1)

HeapPop(hp) ==
    LET n == Len(hp)
        d == down(Swap(hp, 1, n), 1, n - 1)
    IN [x |-> d[n], h |-> SubSeq(d, 1, n - 1)]

\* metrics.go 280-288: keep the k best of out in a min-heap
RECURSIVE Select(_, _, _, _)
Select(hp, out, i, k) ==
    IF i > Len(out) THEN hp
    ELSE Select(IF Len(hp) < k THEN HeapPush(hp, out[i])
                ELSE IF FLess(hp[1].score, out[i].score)
                THEN HeapPush(HeapPop(hp).h, out[i])
                ELSE hp,
                out, i + 1, k)

Suggestion(it) ==
    [user_id |-> it.id, score |-> it.score, common_neighbors |-> it.common,
     jaccard |-> it.jaccard, adamic_adar |-> it.aa, cosine |-> it.cos]

\* metrics.go 290-299: pop into the result from its last place to its first
RECURSIVE Drain(_)
Drain(hp) ==
    IF Len(hp) = 0 THEN << >>
    ELSE Drain(HeapPop(hp).h) \o <<Suggestion(HeapPop(hp).x)>>

\* the orders in which a map with these keys can be iterated
Orders(S) ==
    {f \in [1..Cardinality(S) -> S] : \A i, j \in DOMAIN f : f[i] = f[j] => i = j}

UserIds(res) == {res[i].user_id : i \in DOMAIN res}

\* --------------------------------------------------- PYMK: the goroutine
\* history: successful edge changes of u that are applied and whose call has
\* not yet finished TouchUsers
InFlight(u) ==
    Cardinality({t \in Threads :
        /\ th[t].op \in {"Follow", "Unfollow"}
        /\ th[t].ok
        /\ th[t].pc \in {"unlockB", "unlockA", "load", "store"}
        /\ u \in {th[t].u, th[t].v}})

CallPYMK(t, u, k, ex) ==
    /\ Begin(t, "PYMK", u, 0)
    /\ th' = [th EXCEPT ![t] = [Idle EXCEPT !.op = "PYMK", !.u = u,
                                            !.pc = "epoch"]]
    /\ pk' = [pk EXCEPT ![t] =
                [NoPymk EXCEPT !.k = IF k <= 0 THEN DefaultK ELSE k,
                               !.ex = ex,
                               !.startVer = applied[u] - InFlight(u)]]
    /\ UNCHANGED <<following, followers, mu, epochs, applied,
                   C, vec, ll, table, now>>

\* metrics.go 173
PymkEpoch(t) ==
    /\ th[t].pc = "epoch"
    /\ pk' = [pk EXCEPT ![t].epoch = UserEpoch(th[t].u)]
    /\ th' = [th EXCEPT ![t].pc = "get"]
    /\ UNCHANGED <<following, followers, mu, epochs, calls, applied,
                   C, vec, ll, table, now>>

PymkKey(t) == Key(th[t].u, pk[t].k, pk[t].epoch)

\* metrics.go 176-179
PymkGet(t) ==
    /\ th[t].pc = "get"
    /\ LET g == Get(PymkKey(t))
       IN /\ ll' = g.ll
          /\ table' = g.table
          /\ pk' = [pk EXCEPT ![t].hit = g.ok,
                              ![t].res = g.val,
                              ![t].entVer = g.ver]
          /\ th' = [th EXCEPT ![t].pc = IF g.ok THEN "ret" ELSE "outU"]
    /\ UNCHANGED <<following, followers, mu, epochs, calls, applied, C, vec, now>>

\* metrics.go 182
PymkOutU(t) ==
    /\ th[t].pc = "outU"
    /\ mu[h(th[t].u)].w = 0
    /\ pk' = [pk EXCEPT ![t].outU = Following(th[t].u)]
    /\ th' = [th EXCEPT ![t].pc = "inU"]
    /\ UNCHANGED <<following, followers, mu, epochs, calls, applied,
                   C, vec, ll, table, now>>

\* metrics.go 183-187
PymkInU(t) ==
    /\ th[t].pc = "inU"
    /\ mu[h(th[t].u)].w = 0
    /\ pk' = [pk EXCEPT ![t].inU = Followers(th[t].u),
                        ![t].todoOut = pk[t].outU,
                        ![t].todoIn = Followers(th[t].u),
                        ![t].readVer = applied[th[t].u]]
    /\ th' = [th EXCEPT ![t].pc = "expand"]
    /\ UNCHANGED <<following, followers, mu, epochs, calls, applied,
                   C, vec, ll, table, now>>

\* a plausible slip: the followers of the neighbour are expanded
PymkExpand_followers(t) ==
    /\ th[t].pc = "expand"
    /\ \E n \in (IF pk[t].todoOut # {} THEN pk[t].todoOut ELSE pk[t].todoIn) :
         /\ mu[h(n)].w = 0
         /\ \E nbs \in Truncations(Followers(n)) :
              pk' = [pk EXCEPT
                       ![t].stats =
                           ExpandOne(pk[t].stats, th[t].u,
                                     pk[t].outU \cup pk[t].inU, pk[t].ex, nbs,
                                     aaWeight(DegreeOut(n) + DegreeIn(n))),
                       ![t].todoOut = @ \ {n},
                       ![t].todoIn = IF pk[t].todoOut # {} THEN @ ELSE @ \ {n}]
    /\ UNCHANGED <<following, followers, mu, epochs, th, calls, applied,
                   C, vec, ll, table, now>>

\* metrics.go 191-222: one iteration of expand(outU), then of expand(inU)
PymkExpand(t) ==
    /\ th[t].pc = "expand"
    /\ \E n \in (IF pk[t].todoOut # {} THEN pk[t].todoOut ELSE pk[t].todoIn) :
         /\ mu[h(n)].w = 0
         /\ \E nbs \in Truncations(Following(n)) :
              pk' = [pk EXCEPT
                       ![t].stats =
                           ExpandOne(pk[t].stats, th[t].u,
                                     pk[t].outU \cup pk[t].inU, pk[t].ex, nbs,
                                     aaWeight(DegreeOut(n) + DegreeIn(n))),
                       ![t].todoOut = @ \ {n},
                       ![t].todoIn = IF pk[t].todoOut # {} THEN @ ELSE @ \ {n}]
    /\ UNCHANGED <<following, followers, mu, epochs, th, calls, applied,
                   C, vec, ll, table, now>>

\* a plausible slip: the empty answer is returned without being stored
PymkScore_skipempty(t) ==
    /\ th[t].pc = "expand"
    /\ pk[t].todoOut = {}
    /\ pk[t].todoIn = {}
    /\ \A c \in DOMAIN pk[t].stats : mu[h(c)].w = 0
    /\ \E ord \in Orders(DOMAIN pk[t].stats) :
         LET sc == Scored(pk[t].stats, pk[t].outU, th[t].u)
             out == [i \in DOMAIN ord |-> sc[ord[i]]]
         IN pk' = [pk EXCEPT ![t].res = Drain(Select(<< >>, out, 1, pk[t].k))]
    /\ th' = [th EXCEPT ![t].pc =
                IF DOMAIN pk[t].stats = {} THEN "ret" ELSE "set"]
    /\ UNCHANGED <<following, followers, mu, epochs, calls, applied,
                   C, vec, ll, table, now>>

\* metrics.go 224-299: the empty answer, or features, scores and top-K
PymkScore(t) ==
    /\ th[t].pc = "expand"
    /\ pk[t].todoOut = {}
    /\ pk[t].todoIn = {}
    /\ \A c \in DOMAIN pk[t].stats : mu[h(c)].w = 0
    /\ \E ord \in Orders(DOMAIN pk[t].stats) :
         LET sc == Scored(pk[t].stats, pk[t].outU, th[t].u)
             out == [i \in DOMAIN ord |-> sc[ord[i]]]
         IN pk' = [pk EXCEPT ![t].res = Drain(Select(<< >>, out, 1, pk[t].k))]
    /\ th' = [th EXCEPT ![t].pc = "set"]
    /\ UNCHANGED <<following, followers, mu, epochs, calls, applied,
                   C, vec, ll, table, now>>

\* part_000 57-63, then the return of PYMK
PymkSetLookup(t) ==
    /\ th[t].pc = "set"
    /\ IF C.CacheSize = 0
       THEN /\ th' = [th EXCEPT ![t].pc = "ret"]
            /\ UNCHANGED <<ll, table>>
       ELSE IF PymkKey(t) \in DOMAIN table
       THEN LET c == SetPresent(PymkKey(t), pk[t].res, pk[t].readVer)
            IN /\ ll' = c.ll
               /\ table' = c.table
               /\ th' = [th EXCEPT ![t].pc = "ret"]
       ELSE /\ th' = [th EXCEPT ![t].pc = "insert"]
            /\ UNCHANGED <<ll, table>>
    /\ UNCHANGED <<following, followers, mu, epochs, calls, applied,
                   C, vec, now, pk>>

\* part_000 65-70, then the return of PYMK
PymkSetInsert(t) ==
    /\ th[t].pc = "insert"
    /\ LET c == SetInsert(PymkKey(t), pk[t].res, pk[t].readVer)
       IN /\ ll' = c.ll
          /\ table' = c.table
          /\ pk' = [pk EXCEPT ![t].evicted = c.evicted]
    /\ th' = [th EXCEPT ![t].pc = "ret"]
    /\ UNCHANGED <<following, followers, mu, epochs, calls, applied,
                   C, vec, now>>

\* time passes
Tick ==
    /\ now < MaxTime
    /\ now' = now + 1
    /\ UNCHANGED <<following, followers, mu, epochs, th, calls, applied,
                   C, vec, ll, table, pk>>

\* ----------------------------------------------------------- HTTP server
\* the request a handler serves is kept with the goroutine: path and method,
\* then the status written; hs counts the reads getMutuals has finished and
\* uf is the first of its two sets
Methods == {"GET", "POST", "PUT"}

\* the method each route is registered for (part_001 30-36)
Documented(path) ==
    IF path \in {"/follow", "/unfollow"} THEN "POST"
    ELSE IF path = "/embedding" THEN "PUT"
    ELSE "GET"

\* http.Error(w, msg, status); return
Answer(path, method, status) ==
    [Idle EXCEPT !.path = path, !.method = method, !.status = status]

\* part_001 43-53, up to the call of s.g.Follow
postFollow(t, method, bodyOk, src, dst) ==
    /\ Begin(t, "Follow", src, dst)
    /\ th' = [th EXCEPT ![t] =
                IF method # "POST" THEN Answer("/follow", method, 405)
                ELSE IF ~bodyOk THEN Answer("/follow", method, 400)
                ELSE [Idle EXCEPT !.op = "Follow", !.u = src, !.v = dst,
                                  !.eu0 = UserEpoch(src),
                                  !.ev0 = UserEpoch(dst),
                                  !.g0 = Snap(t),
                                  !.pc = IF src = dst THEN "ret" ELSE "lockA",
                                  !.path = "/follow", !.method = method]]
    /\ UNCHANGED <<following, followers, mu, epochs, applied, svc>>

\* part_001 55-65, up to the call of s.g.Unfollow
postUnfollow(t, method, bodyOk, src, dst) ==
    /\ Begin(t, "Unfollow", src, dst)
    /\ th' = [th EXCEPT ![t] =
                IF method # "POST" THEN Answer("/unfollow", method, 405)
                ELSE IF ~bodyOk THEN Answer("/unfollow", method, 400)
                ELSE [Idle EXCEPT !.op = "Unfollow", !.u = src, !.v = dst,
                                  !.eu0 = UserEpoch(src),
                                  !.ev0 = UserEpoch(dst),
                                  !.g0 = Snap(t),
                                  !.pc = "lockA",
                                  !.path = "/unfollow", !.method = method]]
    /\ UNCHANGED <<following, followers, mu, epochs, applied, svc>>

\* part_001 67-71 and 72-76, up to the call of s.g.Following / s.g.Followers:
\* the method is not looked at
getAdjacency(t, path, op, method, idOk, u) ==
    /\ Begin(t, op, u, 0)
    /\ th' = [th EXCEPT ![t] =
                IF ~idOk THEN Answer(path, method, 400)
                ELSE [Idle EXCEPT !.op = op, !.u = u, !.pc = "rlock",
                                  !.path = path, !.method = method]]
    /\ UNCHANGED <<following, followers, mu, epochs, applied, svc>>

getFollowing(t, method, idOk, u) ==
    getAdjacency(t, "/following", "Following", method, idOk, u)

getFollowers(t, method, idOk, u) ==
    getAdjacency(t, "/followers", "Followers", method, idOk, u)

\* part_001 77-81, up to the first call of s.g.Following
getMutuals(t, method, idsOk, u, v) ==
    /\ Begin(t, "Following", u, v)
    /\ th' = [th EXCEPT ![t] =
                IF ~idsOk THEN Answer("/mutuals", method, 400)
                ELSE [Idle EXCEPT !.op = "Following", !.u = u, !.v = v,
                                  !.pc = "rlock",
                                  !.path = "/mutuals", !.method = method]]
    /\ UNCHANGED <<following, followers, mu, epochs, applied, svc>>

\* part_001 82: the second call of s.g.Following
getMutualsSecond(t) ==
    /\ th[t].pc = "ret"
    /\ th[t].path = "/mutuals"
    /\ th[t].hs = 0
    /\ th' = [th EXCEPT ![t].uf = th[t].out, ![t].out = {},
                        ![t].u = th[t].v, ![t].hs = 1, ![t].pc = "rlock"]
    /\ UNCHANGED <<following, followers, mu, epochs, calls, applied, svc>>

\* part_001 92-105, with MemEmbeds.Put
putEmbedding(t, method, bodyOk, user, v) ==
    /\ Begin(t, "Put", user, 0)
    /\ LET st == IF method # "PUT" THEN 405
                 ELSE IF ~bodyOk \/ Len(v) = 0 THEN 400
                 ELSE 200
       IN /\ th' = [th EXCEPT ![t] = Answer("/embedding", method, st)]
          /\ vec' = IF st = 200 THEN Put(vec, user, v) ELSE vec
    /\ UNCHANGED <<following, followers, mu, epochs, applied,
                   C, ll, table, now, pk>>

\* part_001 107-124, up to the call of s.svc.PYMK: the method is not looked
\* at; k is 0 here for a k that is missing, not a number or not positive
getPYMK(t, method, idOk, u, k, ex) ==
    /\ Begin(t, "PYMK", u, 0)
    /\ th' = [th EXCEPT ![t] =
                IF ~idOk THEN Answer("/pymk", method, 400)
                ELSE [Idle EXCEPT !.op = "PYMK", !.u = u, !.pc = "epoch",
                                  !.path = "/pymk", !.method = method]]
    /\ pk' = [pk EXCEPT ![t] =
                IF ~idOk THEN NoPymk
                ELSE [NoPymk EXCEPT !.k = IF k > 0 THEN k ELSE DefaultK,
                                    !.ex = ex,
                                    !.startVer = applied[u] - InFlight(u)]]
    /\ UNCHANGED <<following, followers, mu, epochs, applied,
                   C, vec, ll, table, now>>

\* writeJSON(w, result): the call has returned and the handler answers 200;
\* for /mutuals the answer is the intersection of the two sets
writeJSON(t) ==
    /\ th[t].pc = "ret"
    /\ th[t].path # ""
    /\ th[t].path = "/mutuals" => th[t].hs = 1
    /\ th' = [th EXCEPT ![t] =
                [Answer(th[t].path, th[t].method, 200) EXCEPT
                    !.ok = th[t].ok,
                    !.out = IF th[t].path = "/mutuals"
                            THEN th[t].uf \cap th[t].out ELSE th[t].out]]
    /\ pk' = [pk EXCEPT ![t] = [NoPymk EXCEPT !.res = pk[t].res]]
    /\ UNCHANGED <<following, followers, mu, epochs, calls, applied,
                   C, vec, ll, table, now>>

\* the calls of the concurrent runs: both lock orders across two shards, a
\* pair within one shard, a self-edge; reads of both shards
MutPairs == {<<1, 2>>, <<2, 1>>, <<1, shards + 1>>, <<1, 1>>}
ReadArgs ==
    {<<op, u, 0>> : op \in ReadOps \ {"HasEdge"}, u \in {1, 2}}
        \cup {<<"HasEdge", 1, 2>>, <<"HasEdge", 2, 1>>}

MutStep(t) ==
    \/ LockA(t)
    \/ LockB(t)
    \/ FollowFwd(t)
    \/ FollowRev(t)
    \/ UnfollowFwd(t)
    \/ UnfollowRev(t)
    \/ UnlockB(t)
    \/ UnlockA(t)
    \/ TouchLoad(t)
    \/ TouchStore(t)

ReadStep(t) ==
    \/ RLock(t)
    \/ Read(t)

GraphStep(t) ==
    \/ MutStep(t)
    \/ ReadStep(t)
    \/ Return(t)

PymkStep(t) ==
    \/ PymkEpoch(t)
    \/ PymkGet(t)
    \/ PymkOutU(t)
    \/ PymkInU(t)
    \/ PymkExpand(t)
    \/ PymkScore(t)
    \/ PymkSetLookup(t)
    \/ PymkSetInsert(t)

Next ==
    \E t \in Threads :
        \/ \E p \in MutPairs : CallFollow(t, p[1], p[2])
        \/ \E p \in MutPairs : CallUnfollow(t, p[1], p[2])
        \/ \E a \in ReadArgs : CallRead(t, a[1], a[2], a[3])
        \/ GraphStep(t)

\* the calls of the concurrent runs with PYMK
PymkPairs == {<<1, 2>>, <<2, shards + 1>>}
PymkArgs == {<<1, 1, {}>>}

PymkInit == InitWith([t \in Threads |-> IF t = 1 THEN MaxPymkCalls ELSE 1])

PymkNext ==
    \E t \in Threads :
        \/ \E p \in PymkPairs : CallFollow(t, p[1], p[2])
        \/ \E p \in PymkPairs : CallUnfollow(t, p[1], p[2])
        \/ \E a \in PymkArgs : CallPYMK(t, a[1], a[2], a[3])
        \/ MutStep(t)
        \/ PymkStep(t)
        \/ Return(t)

PymkSpec == PymkInit /\ [][PymkNext]_vars

\* the calls of the sequential runs
SeqPairs == {<<1, 2>>, <<2, shards + 1>>, <<1, shards + 1>>}
SeqArgs == {<<1, 0, {}>>, <<1, 0, {shards + 1}>>, <<1, 1, {}>>}

SeqInit == InitWith([t \in Threads |-> IF t = 1 THEN MaxSeqCalls ELSE 0])

SeqNext ==
    \/ \E t \in Threads :
        \/ \E p \in SeqPairs : CallFollow(t, p[1], p[2])
        \/ \E p \in SeqPairs : CallUnfollow(t, p[1], p[2])
        \/ \E a \in SeqArgs : CallPYMK(t, a[1], a[2], a[3])
        \/ MutStep(t)
        \/ PymkStep(t)
        \/ Return(t)
    \/ Tick

SeqSpec == SeqInit /\ [][SeqNext]_vars

\* the calls of the sequential runs that build a two-hop neighbourhood of
\* user 1: neighbours 2 and 3, candidate 4, and 2 following back
RankPairs == {<<1, 2>>, <<1, 3>>, <<2, 4>>, <<3, 4>>, <<2, 1>>}
RankArgs == {<<1, 5, {}>>, <<1, 5, {4}>>}

RankInit == InitWith([t \in Threads |-> IF t = 1 THEN MaxRankCalls ELSE 0])

RankNext ==
    \E t \in Threads :
        \/ \E p \in RankPairs : CallFollow(t, p[1], p[2])
        \/ \E p \in RankPairs : CallUnfollow(t, p[1], p[2])
        \/ \E a \in RankArgs : CallPYMK(t, a[1], a[2], a[3])
        \/ MutStep(t)
        \/ PymkStep(t)
        \/ Return(t)

RankSpec == RankInit /\ [][RankNext]_vars

\* the sequential runs of a service built with a small fan-out cap, or none:
\* user 1 follows 2 and is followed by 2 and 3, and 2 follows up to three
\* others
FanCaps == 0..MaxFanCap
FanPairs == {<<1, 2>>, <<2, 1>>, <<3, 1>>, <<2, 3>>, <<2, 4>>, <<2, shards + 1>>}
FanArgs == {<<1, 5, {}>>}

FanInit ==
    /\ following = << >>
    /\ followers = << >>
    /\ mu = [s \in ShardIds |-> [w |-> 0, r |-> {}]]
    /\ epochs = << >>
    /\ th = [t \in Threads |-> Idle]
    /\ calls = [t \in Threads |-> IF t = 1 THEN MaxRankCalls ELSE 0]
    /\ applied = [u \in Users |-> 0]
    /\ \E m \in FanCaps :
          C = [MaxExpandPerNeighbor |-> m,
               CacheSize |-> CacheSize, CacheTTL |-> CacheTTL]
    /\ ll = << >>
    /\ table = << >>
    /\ now = 0
    /\ pk = [t \in Threads |-> NoPymk]
    /\ vec = << >>

FanNext ==
    \E t \in Threads :
        \/ \E p \in FanPairs : CallFollow(t, p[1], p[2])
        \/ \E p \in FanPairs : CallUnfollow(t, p[1], p[2])
        \/ \E a \in FanArgs : CallPYMK(t, a[1], a[2], a[3])
        \/ MutStep(t)
        \/ PymkStep(t)
        \/ Return(t)

FanSpec == FanInit /\ [][FanNext]_vars

\* the top-K selection as a function of the candidate statistics: PYMK(1,k)
\* stands after its expansion with any statistics for up to four candidates
TopKStats ==
    UNION {[S -> [common : {1, 2}, aa : {AATable[1], AATable[2]}]] :
              S \in SUBSET (Users \ {1})}

TopKInit ==
    /\ following = << >>
    /\ followers = << >>
    /\ mu = [s \in ShardIds |-> [w |-> 0, r |-> {}]]
    /\ epochs = << >>
    /\ calls = [t \in Threads |-> 0]
    /\ applied = [u \in Users |-> 0]
    /\ C = [MaxExpandPerNeighbor |-> MaxExpandDefault,
            CacheSize |-> CacheSize, CacheTTL |-> CacheTTL]
    /\ ll = << >>
    /\ table = << >>
    /\ now = 0
    /\ vec = << >>
    /\ th = [t \in Threads |->
               IF t = 1
               THEN [Idle EXCEPT !.op = "PYMK", !.u = 1, !.pc = "expand"]
               ELSE Idle]
    /\ \E k \in 1..MaxK, st \in TopKStats :
          pk = [t \in Threads |->
                  IF t = 1 THEN [NoPymk EXCEPT !.k = k, !.stats = st]
                  ELSE NoPymk]

TopKNext ==
    \E t \in Threads :
        \/ PymkScore(t)
        \/ PymkSetLookup(t)
        \/ PymkSetInsert(t)
        \/ Return(t)

TopKSpec == TopKInit /\ [][TopKNext]_vars

\* lruCache on its own: Get and Set called directly, one after the other, with
\* one key more than the cache holds and two values
CacheKeys == {Key(1, 1, e) : e \in 0..CacheSize}
CacheVals ==
    {<< >>,
     <<Suggestion([id |-> 2, score |-> <<1, 1>>, common |-> 1,
                   jaccard |-> <<0, 1>>, aa |-> AATable[1],
                   cos |-> <<0, 1>>])>>}

\* c.Get(key): the goroutine keeps the key and what Get returned
LruGet(t, key) ==
    /\ Begin(t, "Get", key.user, 0)
    /\ LET g == Get(key)
       IN /\ ll' = g.ll
          /\ table' = g.table
          /\ pk' = [pk EXCEPT ![t] =
                      [NoPymk EXCEPT !.k = key.k, !.epoch = key.epoch,
                                     !.hit = g.ok, !.res = g.val]]
    /\ th' = [th EXCEPT ![t] =
                [Idle EXCEPT !.op = "Get", !.u = key.user, !.pc = "ret"]]
    /\ UNCHANGED <<following, followers, mu, epochs, applied, C, vec, now>>

\* c.Set(key, val): the goroutine keeps the key, the value, whether the key
\* was found (hit) and the entries evicted
LruSet(t, key, val) ==
    /\ Begin(t, "Set", key.user, 0)
    /\ LET c == IF C.CacheSize = 0
                THEN [ll |-> ll, table |-> table, evicted |-> {}]
                ELSE IF key \in DOMAIN table THEN SetPresent(key, val, 0)
                ELSE SetInsert(key, val, 0)
       IN /\ ll' = c.ll
          /\ table' = c.table
          /\ pk' = [pk EXCEPT ![t] =
                      [NoPymk EXCEPT !.k = key.k, !.epoch = key.epoch,
                                     !.hit = (key \in DOMAIN table),
                                     !.res = val, !.evicted = c.evicted]]
    /\ th' = [th EXCEPT ![t] =
                [Idle EXCEPT !.op = "Set", !.u = key.user, !.pc = "ret"]]
    /\ UNCHANGED <<following, followers, mu, epochs, applied, C, vec, now>>

CacheInit == InitWith([t \in Threads |-> IF t = 1 THEN MaxCacheOps ELSE 0])

CacheNext ==
    \/ \E t \in Threads :
        \/ \E key \in CacheKeys : LruGet(t, key)
        \/ \E key \in CacheKeys, val \in CacheVals : LruSet(t, key, val)
        \/ Return(t)
    \/ Tick

CacheSpec == CacheInit /\ [][CacheNext]_vars

\* the requests of the runs of the HTTP server, served one after the other
HttpPairs == {<<1, 2>>, <<2, 3>>}
HttpUsers == {1, 2}
HttpVecs == {<< >>} \cup Vecs

HttpInit == InitWith([t \in Threads |-> IF t = 1 THEN MaxHttpCalls ELSE 0])

HttpNext ==
    \E t \in Threads :
        \/ \E m \in Methods, b \in BOOLEAN, p \in HttpPairs :
              postFollow(t, m, b, p[1], p[2])
        \/ \E m \in Methods, b \in BOOLEAN, p \in HttpPairs :
              postUnfollow(t, m, b, p[1], p[2])
        \/ \E m \in Methods, b \in BOOLEAN, u \in HttpUsers :
              getFollowing(t, m, b, u)
        \/ \E m \in Methods, b \in BOOLEAN, u \in HttpUsers :
              getFollowers(t, m, b, u)
        \/ \E m \in Methods, b \in BOOLEAN, p \in HttpPairs :
              getMutuals(t, m, b, p[1], p[2])
        \/ \E m \in Methods, b \in BOOLEAN, u \in {1, 3}, v \in HttpVecs :
              putEmbedding(t, m, b, u, v)
        \/ \E m \in Methods, b \in BOOLEAN, k \in {0, 1} :
              getPYMK(t, m, b, 1, k, {})
        \/ MutStep(t)
        \/ ReadStep(t)
        \/ PymkStep(t)
        \/ getMutualsSecond(t)
        \/ writeJSON(t)

HttpSpec == HttpInit /\ [][HttpNext]_vars

Spec == Init /\ [][Next]_vars

\* sync.Mutex and sync.RWMutex hand a lock to a goroutine that keeps asking
\* for it (starvation mode; a pending Lock holds back new RLocks), and the
\* scheduler keeps running every goroutine that can run
Fairness == \A t \in Threads : SF_vars(GraphStep(t))

FairInit == InitWith([t \in Threads |-> IF t = 1 THEN MaxLiveCalls ELSE 1])

FairSpec == FairInit /\ [][Next]_vars /\ Fairness

\* ------------------------------------------------------------------ claims
AllIdle == \A t \in Threads : th[t].pc = "idle"

EdgeBothWays(u, v) == (v \in Following(u)) <=> (u \in Followers(v))

\* C1: whenever no Follow or Unfollow is between its two map updates, and so
\* after any sequence of calls that have returned, for every pair (u,v):
\* v is in following(u) if and only if u is in followers(v).
C1_Bidirectional ==
    (\A t \in Threads : th[t].pc # "rev")
        => \A u \in Users, v \in Users : EdgeBothWays(u, v)

\* an edge was added, removed and added again, and every call has returned
C1_Witness ==
    /\ AllIdle
    /\ HasEdge(1, 2)
    /\ applied[1] = 3

\* C2: in every state in which some reader holds the read lock of shard h(u)
\* or of shard h(v), the edge (u,v) is in both following(u) and followers(v)
\* or in neither.
C2_ReadersSeeWholeEdges ==
    \A s \in ShardIds :
        mu[s].r # {} =>
            \A u \in Users, v \in Users :
                (h(u) = s \/ h(v) = s) => EdgeBothWays(u, v)

\* a reader holds a shard's read lock while a writer is between its two map
\* updates in another shard
C2_Witness ==
    /\ \E s \in ShardIds : mu[s].r # {}
    /\ \E t \in Threads : th[t].pc = "rev"

\* C3: once every call has returned, the epoch of each user equals the number
\* of successful Follow/Unfollow calls that had the user as an endpoint.
C3_NoLostEpochUpdate ==
    AllIdle => \A u \in Users : UserEpoch(u) = applied[u]

\* C4: no step lowers UserEpoch(u), and when a successful Follow or Unfollow
\* returns, the epochs of both endpoints are larger than when it started.
C4_EpochMonotone ==
    [][/\ \A u \in Users : UserEpoch(u)' >= UserEpoch(u)
       /\ \A t \in Threads :
             (th[t].pc = "store" /\ th'[t].pc = "ret")
                 => /\ UserEpoch(th[t].u)' > th[t].eu0
                    /\ UserEpoch(th[t].v)' > th[t].ev0]_vars

PymkReturns(t) == th[t].pc = "ret" /\ th[t].op = "PYMK"

\* C5: a PYMK(u,k) call that started after a successful Follow or Unfollow
\* involving u had returned never returns a cache entry whose computation
\* read u's adjacency before that change: the entry it is served was
\* computed from an adjacency at least as new as every change of u that had
\* finished when the call started.
C5_NoStaleHit ==
    \A t \in Threads :
        (PymkReturns(t) /\ pk[t].hit) => pk[t].entVer >= pk[t].startVer

\* C6: the user_ids a PYMK(u,k,exclude) call returns are disjoint from the
\* exclude set of that call, also when the answer comes from the cache.
C6_ExcludeRespected ==
    \A t \in Threads :
        PymkReturns(t) => UserIds(pk[t].res) \cap pk[t].ex = {}

CacheInv ==
    /\ Cardinality(DOMAIN table) = Len(ll)
    /\ \A key \in DOMAIN table :
          Cardinality({i \in DOMAIN ll : ll[i].key = key}) = 1

\* C8: no two PYMK calls are inside lruCache.Set at the same time, and the
\* cache invariant holds in every reachable state of concurrent PYMK calls.
C8_CacheExclusive ==
    /\ Cardinality({t \in Threads : th[t].pc = "insert"}) <= 1
    /\ CacheInv

\* C11: with capacity c >= 1 the table of the cache never holds more than c
\* entries, whatever Get and Set operations were made.
C11_Capacity ==
    C.CacheSize >= 1 => Cardinality(DOMAIN table) <= C.CacheSize

\* a Set has put a new entry in front of a cache that is full
C11_Witness ==
    \E t \in Threads :
        /\ PymkReturns(t)
        /\ ~pk[t].hit
        /\ Len(ll) = C.CacheSize
        /\ ll[1].key = PymkKey(t)
        /\ ll[1].key.epoch > ll[Len(ll)].key.epoch

\* C12: a Set leaves its key with the expiry instant now + TTL; a Get of a
\* present key strictly after that instant reports a miss and removes the
\* entry from the table and the list; a Get at or before it reports a hit
\* with the stored value.
C12_TTL ==
    /\ [][\A t \in Threads :
             (th[t].pc \in {"set", "insert"} /\ th'[t].pc = "ret")
                 => /\ ll'[1].key = PymkKey(t)
                    /\ ll'[1].expiresAt = now + C.CacheTTL]_vars
    /\ [][\A t \in Threads :
             (th[t].pc = "get" /\ th'[t].pc # "get"
                               /\ PymkKey(t) \in DOMAIN table)
                 => LET key == PymkKey(t)
                        ent == ll[table[key]]
                    IN IF now > ent.expiresAt
                       THEN /\ ~pk'[t].hit
                            /\ th'[t].pc = "outU"
                            /\ key \notin DOMAIN table'
                            /\ \A i \in DOMAIN ll' : ll'[i].key # key
                            /\ Len(ll') = Len(ll) - 1
                       ELSE /\ pk'[t].hit
                            /\ pk'[t].res = ent.value
                            /\ key \in DOMAIN table']_vars

\* a Get exactly at the expiry instant of its key, later than the Set, hits
C12_Witness ==
    \E t \in Threads :
        /\ PymkReturns(t)
        /\ pk[t].hit
        /\ ll[1].key = PymkKey(t)
        /\ ll[1].expiresAt = now
        /\ now >= C.CacheTTL

\* C13: in sequential use the table has as many keys as the recency list has
\* elements, every key of the table points to a list element that holds an
\* entry with that key, and the key of every list element is in the table.
C13_TableMatchesList ==
    /\ Cardinality(DOMAIN table) = Len(ll)
    /\ \A key \in DOMAIN table :
          /\ table[key] \in DOMAIN ll
          /\ ll[table[key]].key = key
    /\ \A i \in DOMAIN ll : ll[i].key \in DOMAIN table

\* a Get has missed after the TTL of the first entries while an entry that
\* is past its expiry is still in the cache
C13_Witness ==
    \E t \in Threads :
        /\ th[t].pc = "outU"
        /\ now > C.CacheTTL
        /\ Len(ll) = 1
        /\ ll[1].key.user = th[t].u
        /\ ll[1].key # PymkKey(t)
        /\ ll[1].expiresAt < now

Min(a, b) == IF a <= b THEN a ELSE b

\* C14: the top-K selection returns exactly min(k, number of candidates)
\* suggestions, each a different candidate with its own score, in
\* non-increasing score order, and no candidate that is left out has a
\* score strictly higher than a returned one.
C14_TopK ==
    \A t \in Threads :
        (th[t].op = "PYMK" /\ th[t].pc = "set") =>
            LET st == pk[t].stats
                sc == Scored(st, pk[t].outU, th[t].u)
                res == pk[t].res
            IN /\ Len(res) = Min(pk[t].k, Cardinality(DOMAIN st))
               /\ UserIds(res) \subseteq DOMAIN st
               /\ Cardinality(UserIds(res)) = Len(res)
               /\ \A i \in DOMAIN res :
                     res[i].score = sc[res[i].user_id].score
               /\ \A i \in DOMAIN res, j \in DOMAIN res :
                     i < j => ~FLess(res[i].score, res[j].score)
               /\ \A c \in (DOMAIN st) \ UserIds(res), i \in DOMAIN res :
                     ~FLess(res[i].score, sc[c].score)

\* the two best of four candidates are returned, best first, and a candidate
\* with a lower score is left out
C14_Witness ==
    \E t \in Threads :
        /\ th[t].op = "PYMK"
        /\ th[t].pc = "set"
        /\ pk[t].k = 2
        /\ Cardinality(DOMAIN pk[t].stats) = 4
        /\ Len(pk[t].res) = 2
        /\ FLess(pk[t].res[2].score, pk[t].res[1].score)
        /\ \E c \in DOMAIN pk[t].stats :
              /\ c \notin UserIds(pk[t].res)
              /\ FLess(Scored(pk[t].stats, pk[t].outU, th[t].u)[c].score,
                       pk[t].res[2].score)

OneHop(u) == Following(u) \cup Followers(u)

\* C15: the common_neighbors of a computed suggestion c is the number of
\* distinct first-hop neighbours n of u (followed by u, following u, or
\* both) that follow c.
C15_CommonCountsDistinct ==
    \A t \in Threads :
        (PymkReturns(t) /\ ~pk[t].hit) =>
            \A i \in DOMAIN pk[t].res :
                pk[t].res[i].common_neighbors =
                    Cardinality({n \in OneHop(th[t].u) :
                                   pk[t].res[i].user_id \in Following(n)})

\* the users PYMK(u,k,ex) may suggest
Eligible(u, ex) ==
    {c \in Users :
        /\ c \notin {u} \cup OneHop(u) \cup ex
        /\ \E n \in OneHop(u) : c \in Following(n)}

Triangle ==
    /\ Following(1) = {2, 3}
    /\ Following(2) = {4}
    /\ Following(3) = {4}
    /\ Following(4) = {}
    /\ Followers(1) = {}

\* C16: on a cache miss with k at least the number of eligible users, PYMK
\* returns exactly the users outside {u}, the one-hop set and exclude that
\* some one-hop neighbour follows; after Follows (1,2),(1,3),(2,4),(3,4),
\* PYMK(1,5,{}) returns one suggestion: user 4 with common_neighbors 2.
C16_ExactCandidates ==
    \A t \in Threads :
        (/\ PymkReturns(t)
         /\ ~pk[t].hit
         /\ pk[t].k >= Cardinality(Eligible(th[t].u, pk[t].ex))) =>
            /\ UserIds(pk[t].res) = Eligible(th[t].u, pk[t].ex)
            /\ Len(pk[t].res) = Cardinality(Eligible(th[t].u, pk[t].ex))
            /\ (Triangle /\ pk[t].ex = {}) =>
                   /\ Len(pk[t].res) = 1
                   /\ pk[t].res[1].user_id = 4
                   /\ pk[t].res[1].common_neighbors = 2

\* PYMK(1,5,{}) has computed its answer on the triangle graph
C16_Witness ==
    \E t \in Threads :
        /\ PymkReturns(t)
        /\ ~pk[t].hit
        /\ pk[t].ex = {}
        /\ Triangle
        /\ pk[t].res # << >>

\* C17: a PYMK call leaves the list it returns in the cache under
\* (u,k,epoch) until now + TTL; a Follow or Unfollow changes neither the
\* cache nor the epoch of a user that is not one of its endpoints; and a
\* PYMK call that finds its key present and not past expiry returns the
\* stored list at once, without reading adjacency.
C17_SecondCallHits ==
    /\ [][\A t \in Threads :
             (th[t].pc = "insert" /\ th'[t].pc = "ret")
                 => /\ table'[PymkKey(t)] = 1
                    /\ ll'[1].value = pk[t].res
                    /\ ll'[1].expiresAt = now + C.CacheTTL]_vars
    /\ [][\A t \in Threads :
             (th[t].op \in {"Follow", "Unfollow"} /\ th'[t] # th[t])
                 => /\ ll' = ll
                    /\ table' = table
                    /\ \A w \in Users \ {th[t].u, th[t].v} :
                          UserEpoch(w)' = UserEpoch(w)]_vars
    /\ [][\A t \in Threads :
             (/\ th[t].pc = "get"
              /\ th'[t].pc # "get"
              /\ PymkKey(t) \in DOMAIN table
              /\ now <= ll[table[PymkKey(t)]].expiresAt)
                 => /\ th'[t].pc = "ret"
                    /\ pk'[t].hit
                    /\ pk'[t].res = ll[table[PymkKey(t)]].value
                    /\ pk'[t].outU = {}
                    /\ pk'[t].inU = {}]_vars

\* the second PYMK(1,k) is served the empty list of the first one although
\* Follow(2,65) in between has made user 65 a candidate
C17_Witness ==
    \E t \in Threads :
        /\ PymkReturns(t)
        /\ th[t].u = 1
        /\ pk[t].hit
        /\ pk[t].res = << >>
        /\ Eligible(1, {}) # {}

\* the edge (u,v) in the state the call of t found
EdgeBefore(t) ==
    /\ th[t].u \in DOMAIN th[t].g0.fg
    /\ th[t].v \in th[t].g0.fg[th[t].u]

\* C18: a Follow(u,v) that finds the edge (u,v) present returns false and
\* leaves every following set, every followers set and every epoch as it
\* found them.
C18_FollowIdempotent ==
    \A t \in Threads :
        (/\ th[t].op = "Follow"
         /\ th[t].pc = "ret"
         /\ th[t].g0.on
         /\ EdgeBefore(t)) =>
            /\ ~th[t].ok
            /\ following = th[t].g0.fg
            /\ followers = th[t].g0.fr
            /\ epochs = th[t].g0.ep

\* a Follow of an edge that was there returns
C18_Witness ==
    \E t \in Threads :
        /\ th[t].op = "Follow"
        /\ th[t].pc = "ret"
        /\ th[t].g0.on
        /\ EdgeBefore(t)
        /\ Cardinality(DOMAIN following) >= 2

\* C19: a Follow(u,v), u # v, that finds the edge absent returns true and
\* adds it; the Unfollow(u,v) that follows it returns true, and leaves the
\* edge absent, the following and followers maps identical to what the
\* Follow found (no empty set left behind) and every degree as it was.
C19_UnfollowInverts ==
    \A t \in Threads :
        /\ (/\ th[t].op = "Follow"
            /\ th[t].pc = "ret"
            /\ th[t].g0.on
            /\ th[t].u # th[t].v
            /\ ~EdgeBefore(t)) =>
               /\ th[t].ok
               /\ HasEdge(th[t].u, th[t].v)
        /\ (/\ th[t].op = "Unfollow"
            /\ th[t].pc = "ret"
            /\ th[t].prior.u # 0) =>
               /\ th[t].ok
               /\ ~HasEdge(th[t].u, th[t].v)
               /\ following = th[t].prior.g.fg
               /\ followers = th[t].prior.g.fr
               /\ \A w \in Users :
                     /\ DegreeOut(w) = Cardinality(Lookup(th[t].prior.g.fg, w))
                     /\ DegreeIn(w) = Cardinality(Lookup(th[t].prior.g.fr, w))

\* Unfollow(u,v) returns right after Follow(u,v) in a graph that has other
\* edges, where u followed nobody before
C19_Witness ==
    \E t \in Threads :
        /\ th[t].op = "Unfollow"
        /\ th[t].pc = "ret"
        /\ th[t].prior.u # 0
        /\ th[t].prior.g.fg # << >>
        /\ th[t].u \notin DOMAIN th[t].prior.g.fg

\* C20: no user follows itself in any reachable state, and a Follow(u,u)
\* returns false at once, its steps changing neither adjacency nor epochs.
C20_NoSelfEdges ==
    /\ [](\A u \in Users :
             /\ ~HasEdge(u, u)
             /\ u \notin Following(u)
             /\ u \notin Followers(u))
    /\ [](\A t \in Threads :
             (th[t].op = "Follow" /\ th[t].u = th[t].v)
                 => th[t].pc = "ret" /\ ~th[t].ok)
    /\ [][\A t \in Threads :
             (th[t].op = "Follow" /\ th[t].u = th[t].v /\ th'[t] # th[t])
                 => /\ following' = following
                    /\ followers' = followers
                    /\ epochs' = epochs]_vars

\* Follow(1,1) returns while user 1 has an edge
C20_Witness ==
    \E t \in Threads :
        /\ th[t].op = "Follow"
        /\ th[t].u = th[t].v
        /\ th[t].pc = "ret"
        /\ DegreeOut(th[t].u) > 0

\* C21: a request whose method is not the one its route is documented with is
\* answered 405 and starts no graph, embedding or PYMK operation.
C21_MethodMismatch ==
    \A t \in Threads :
        (th[t].path # "" /\ th[t].method # Documented(th[t].path)) =>
            /\ th[t].status = 405
            /\ th[t].op = "none"
            /\ th[t].pc = "idle"

\* a goroutine's step is a call of Get, or of Set, with this key
GetStep(t) == th[t].pc = "idle" /\ th'[t].op = "Get"
SetStep(t) == th[t].pc = "idle" /\ th'[t].op = "Set"
KeyOf(t) == Key(th'[t].u, pk'[t].k, pk'[t].epoch)

\* C22: a Set of a new key into a full cache (capacity >= 1) evicts exactly
\* the entry whose last successful Get or Set is the longest ago, never the
\* key it inserts, and a Get hit leaves the entry it hit as the most recently
\* used, in front of the list.
C22_StrictLRU ==
    /\ [][\A t \in Threads :
             (/\ SetStep(t)
              /\ C.CacheSize >= 1
              /\ KeyOf(t) \notin DOMAIN table
              /\ Len(ll) >= C.CacheSize) =>
                /\ KeyOf(t) \in DOMAIN table'
                /\ ll'[1].key = KeyOf(t)
                /\ Cardinality(pk'[t].evicted) = 1
                /\ \A e \in pk'[t].evicted :
                      /\ e.key # KeyOf(t)
                      /\ e.key \in DOMAIN table
                      /\ \A i \in DOMAIN ll :
                            ll[table[e.key]].used <= ll[i].used
                      /\ DOMAIN table' =
                            (DOMAIN table \ {e.key}) \cup {KeyOf(t)}]_vars
    /\ [][\A t \in Threads :
             (GetStep(t) /\ pk'[t].hit) =>
                /\ ll'[1].key = KeyOf(t)
                /\ \A i \in DOMAIN ll' : ll'[i].used <= ll'[1].used
                /\ \A i \in DOMAIN ll', j \in DOMAIN ll' :
                      i < j => ll'[i].used > ll'[j].used]_vars

\* a Set has evicted an entry that was set later than the one it kept
C22_Witness ==
    \E t \in Threads :
        /\ th[t].op = "Set"
        /\ th[t].pc = "ret"
        /\ ~pk[t].hit
        /\ Len(ll) = C.CacheSize
        /\ \E e \in pk[t].evicted : e.setAt > ll[Len(ll)].setAt

\* an entry without its history of uses
Stored(e) == [key |-> e.key, value |-> e.value, expiresAt |-> e.expiresAt]

\* C23: a Set of a key that is in the cache (capacity >= 1) leaves the key
\* with the new value and the expiry now + TTL, in front of the list, and
\* leaves the size, the keys and every other entry as they were, in the same
\* order, with no entry evicted and no eviction callback.
C23_SetPresent ==
    [][\A t \in Threads :
          (/\ SetStep(t)
           /\ C.CacheSize >= 1
           /\ KeyOf(t) \in DOMAIN table) =>
             /\ ll'[1].key = KeyOf(t)
             /\ ll'[1].value = pk'[t].res
             /\ ll'[1].expiresAt = now + C.CacheTTL
             /\ Len(ll') = Len(ll)
             /\ DOMAIN table' = DOMAIN table
             /\ \A k2 \in DOMAIN table \ {KeyOf(t)} :
                   Stored(ll'[table'[k2]]) = Stored(ll[table[k2]])
             /\ \A k2 \in DOMAIN table \ {KeyOf(t)},
                   k3 \in DOMAIN table \ {KeyOf(t)} :
                   table[k2] < table[k3] => table'[k2] < table'[k3]
             /\ pk'[t].evicted = {}]_vars

\* a Set has replaced an entry of a full cache after its first expiry instant:
\* it is in front with a new expiry while the other entry is past its own
C23_Witness ==
    \E t \in Threads :
        /\ th[t].op = "Set"
        /\ th[t].pc = "ret"
        /\ pk[t].hit
        /\ Len(ll) = C.CacheSize
        /\ ll[1].key = PymkKey(t)
        /\ ll[1].value # << >>
        /\ ll[1].expiresAt = now + C.CacheTTL
        /\ ll[Len(ll)].expiresAt < now

\* C26: a Get hits only if its key was last Set no longer than TTL ago, and
\* no Get changes the expiry of an entry, however many hits the entry had.
C26_HitsDoNotExtend ==
    [][\A t \in Threads :
          GetStep(t) =>
             /\ pk'[t].hit =>
                   /\ KeyOf(t) \in DOMAIN table
                   /\ now <= ll[table[KeyOf(t)]].setAt + C.CacheTTL
             /\ \A key \in DOMAIN table' :
                   /\ key \in DOMAIN table
                   /\ ll'[table'[key]].expiresAt = ll[table[key]].expiresAt
                   /\ ll'[table'[key]].setAt = ll[table[key]].setAt]_vars

\* a Get hits at the last instant of its entry, which was set before the
\* other entry of the cache and is now the one used last
C26_Witness ==
    \E t \in Threads :
        /\ th[t].op = "Get"
        /\ th[t].pc = "ret"
        /\ pk[t].hit
        /\ Len(ll) = 2
        /\ ll[1].setAt + C.CacheTTL = now
        /\ ll[2].setAt > ll[1].setAt
        /\ ll[2].used < ll[1].used

\* the candidates whose count an expansion step of t has raised, and the
\* first-hop neighbour the step has expanded
Raised(t) ==
    {c \in DOMAIN pk'[t].stats :
        c \notin DOMAIN pk[t].stats
            \/ pk'[t].stats[c].common > pk[t].stats[c].common}
Expanded(t) ==
    (pk[t].todoOut \ pk'[t].todoOut) \cup (pk[t].todoIn \ pk'[t].todoIn)

\* C24: with MaxExpandPerNeighbor = M > 0 the expansion of one first-hop
\* neighbour n raises the count of at most M users, all in following(n), so
\* a computation tracks at most M * (|following(u)| + |followers(u)|)
\* candidates; with M = 0 it raises the count of every member of
\* following(n) that is not u, not a first-hop neighbour and not excluded.
C24_FanOutCap ==
    /\ [][\A t \in Threads :
             (th[t].pc = "expand" /\ pk'[t].stats # pk[t].stats) =>
                /\ Cardinality(Expanded(t)) = 1
                /\ \A n \in Expanded(t) :
                      /\ Raised(t) \subseteq Following(n)
                      /\ C.MaxExpandPerNeighbor > 0 =>
                            Cardinality(Raised(t)) <= C.MaxExpandPerNeighbor
                      /\ C.MaxExpandPerNeighbor = 0 =>
                            Raised(t) = Following(n) \
                                ({th[t].u} \cup pk[t].outU \cup pk[t].inU
                                           \cup pk[t].ex)]_vars
    /\ [](\A t \in Threads :
             (th[t].op = "PYMK" /\ C.MaxExpandPerNeighbor > 0) =>
                Cardinality(DOMAIN pk[t].stats) <=
                    C.MaxExpandPerNeighbor *
                        (Cardinality(pk[t].outU) + Cardinality(pk[t].inU)))

\* with a cap of 1 a computation returns one of the three users that the one
\* neighbour of user 1 follows
C24_Witness ==
    \E t \in Threads :
        /\ PymkReturns(t)
        /\ ~pk[t].hit
        /\ C.MaxExpandPerNeighbor = 1
        /\ OneHop(th[t].u) = {2}
        /\ Cardinality(Eligible(th[t].u, pk[t].ex)) = 3
        /\ Len(pk[t].res) = 1

\* the graph has never seen user u: no adjacency set and no epoch
Unseen(u) ==
    /\ u \notin DOMAIN following
    /\ u \notin DOMAIN followers
    /\ u \notin DOMAIN epochs

\* C25: a PYMK call for a user the graph has never seen returns the empty
\* list and leaves the empty list in the cache under (u, k, 0); a further
\* call that finds this entry not past its expiry is a hit that returns the
\* empty list.
C25_UnknownUser ==
    /\ [](\A t \in Threads :
             (PymkReturns(t) /\ Unseen(th[t].u) /\ C.CacheSize >= 1) =>
                /\ pk[t].res = << >>
                /\ PymkKey(t) = Key(th[t].u, pk[t].k, 0)
                /\ PymkKey(t) \in DOMAIN table
                /\ ll[table[PymkKey(t)]].key = PymkKey(t)
                /\ ll[table[PymkKey(t)]].value = << >>)
    /\ [][\A t \in Threads :
             (/\ th[t].pc = "get"
              /\ th'[t].pc # "get"
              /\ Unseen(th[t].u)
              /\ PymkKey(t) \in DOMAIN table
              /\ now <= ll[table[PymkKey(t)]].expiresAt) =>
                /\ pk'[t].hit
                /\ pk'[t].res = << >>
                /\ th'[t].pc = "ret"]_vars

\* the second PYMK call for a user without edges is served the empty list
\* from the cache, in a graph that has edges between other users
C25_Witness ==
    \E t \in Threads :
        /\ PymkReturns(t)
        /\ pk[t].hit
        /\ Unseen(th[t].u)
        /\ pk[t].res = << >>
        /\ following # << >>

\* the users some first-hop neighbour of u follows
TwoHop(u) == {c \in Users : \E n \in OneHop(u) : c \in Following(n)}

\* C27: every user_id that PYMK(u,k,{}) returns from the cache is followed by
\* a first-hop neighbour of u in the graph as it is when the call returns
\* (a hit in a sequential history means that no Follow or Unfollow with u as
\* an endpoint has succeeded since the entry was computed).
C27_CachedStillCandidate ==
    \A t \in Threads :
        (PymkReturns(t) /\ pk[t].hit /\ pk[t].ex = {}) =>
            UserIds(pk[t].res) \subseteq TwoHop(th[t].u)

\* C27 as amended: every user_id of a computed answer is followed by a
\* first-hop neighbour of u when the answer is computed; a hit returns the
\* stored answer; and no step of a Follow call between other users makes a
\* user_id of an answer stored for u stop being followed by a first-hop
\* neighbour of u.
C27_CandidateWhenComputed ==
    /\ [](\A t \in Threads :
             (PymkReturns(t) /\ ~pk[t].hit) =>
                UserIds(pk[t].res) \subseteq TwoHop(th[t].u))
    /\ [][\A t \in Threads :
             (th[t].pc = "get" /\ pk'[t].hit) =>
                /\ PymkKey(t) \in DOMAIN table
                /\ pk'[t].res = ll[table[PymkKey(t)]].value]_vars
    /\ [][\A t \in Threads :
             (th[t].op = "Follow" /\ th'[t] # th[t]) =>
                \A i \in DOMAIN ll :
                    (/\ ll[i].key.user \notin {th[t].u, th[t].v}
                     /\ UserIds(ll[i].value) \subseteq TwoHop(ll[i].key.user))
                        => /\ ll' = ll
                           /\ UserIds(ll[i].value)
                                 \subseteq TwoHop(ll[i].key.user)']_vars

\* with no fan-out cap, a hit returns suggestions that are all still
\* followed by a first-hop neighbour, and misses a user that is eligible now:
\* a Follow between two other users was applied after the answer was computed
C27_Witness ==
    \E t \in Threads :
        /\ PymkReturns(t)
        /\ pk[t].hit
        /\ pk[t].res # << >>
        /\ pk[t].ex = {}
        /\ C.MaxExpandPerNeighbor = 0
        /\ UserIds(pk[t].res) \subseteq TwoHop(th[t].u)
        /\ Eligible(th[t].u, {}) \ UserIds(pk[t].res) # {}

\* history: the edge changes of u that are applied and whose call holds no
\* shard lock any more, so that every reader can see them
Visible(u) ==
    applied[u] - Cardinality({t \in Threads :
                                /\ th[t].op \in {"Follow", "Unfollow"}
                                /\ th[t].ok
                                /\ Held(t) # {}
                                /\ u \in {th[t].u, th[t].v}})

\* C28: whenever a Follow or Unfollow has applied its edge change and
\* released its locks, the epochs of both endpoints are larger than when the
\* call started; and no PYMK(u,k) call hits an entry that was computed from
\* an adjacency older than the changes of u that readers can see.
C28_EpochNoLaterThanEdge ==
    /\ [](\A t \in Threads :
             (/\ th[t].op \in {"Follow", "Unfollow"}
              /\ th[t].ok
              /\ Held(t) = {}) =>
                /\ UserEpoch(th[t].u) > th[t].eu0
                /\ UserEpoch(th[t].v) > th[t].ev0)
    /\ [][\A t \in Threads :
             (th[t].pc = "get" /\ pk'[t].hit) =>
                pk'[t].entVer >= Visible(th[t].u)]_vars

\* C28 as amended: the edge is visible no later than the epoch bump: the
\* epoch of a user never exceeds the number of edge changes of that user
\* that are applied and unlocked, and every step that changes an epoch is
\* the store of TouchUsers of a successful Follow or Unfollow that holds no
\* shard lock, for an endpoint of that call.
C28_EdgeNoLaterThanEpoch ==
    /\ [](\A u \in Users : UserEpoch(u) <= Visible(u))
    /\ [][\A u \in Users :
             UserEpoch(u)' # UserEpoch(u) =>
                \E t \in Threads :
                    /\ th[t].pc = "store"
                    /\ th'[t].pc # "store"
                    /\ th[t].op \in {"Follow", "Unfollow"}
                    /\ th[t].ok
                    /\ Held(t) = {}
                    /\ u = TouchArg(t)
                    /\ u \in {th[t].u, th[t].v}]_vars

\* Follow(1,2) has released its locks and stored the epoch of user 1 only,
\* the edge is visible, and the other goroutine has been served, for user 1,
\* an entry computed before the edge was there
C28_Witness ==
    \E t \in Threads, t2 \in Threads :
        /\ th[t].op = "Follow"
        /\ th[t].pc = "load"
        /\ th[t].i = 2
        /\ Held(t) = {}
        /\ HasEdge(th[t].u, th[t].v)
        /\ UserEpoch(th[t].v) = th[t].ev0
        /\ PymkReturns(t2)
        /\ pk[t2].hit
        /\ th[t2].u = th[t].u
        /\ pk[t2].entVer < applied[th[t].u]

\* C9: a Follow or Unfollow takes a shard lock only while every lock it holds
\* has a lower index, takes a single lock when both endpoints hash to one
\* shard, and updates the maps holding the locks of both endpoints.
C9_LockOrder ==
    /\ [][\A t \in Threads, s \in ShardIds :
             (mu[s].w # t /\ mu'[s].w = t)
                 => /\ \A s2 \in Held(t) : s2 < s
                    /\ h(th[t].u) = h(th[t].v) => Held(t) = {}]_vars
    /\ [](\A t \in Threads :
             th[t].pc \in {"fwd", "rev"}
                 => Held(t) = {h(th[t].u), h(th[t].v)})

\* Follow(2,1) or Unfollow(2,1), whose endpoints are in descending shard
\* order, holds the lower shard and waits for the higher one
C9_Witness ==
    \E t \in Threads :
        /\ th[t].pc = "lockB"
        /\ th[t].u = 2
        /\ th[t].v = 1
        /\ Held(t) = {1}

\* C10: under fair scheduling every call that has started returns, and a
\* goroutine that is not in a call holds no shard lock.
C10_EveryCallReturns ==
    /\ \A t \in Threads : (th[t].pc # "idle") ~> (th[t].pc = "idle")
    /\ [](\A t \in Threads :
             th[t].pc \in {"idle", "ret"}
                 => /\ Held(t) = {}
                    /\ \A s \in ShardIds : t \notin mu[s].r)

\* a call waits for a shard lock that another call holds
C10_Witness ==
    \E t \in Threads, t2 \in Threads :
        /\ th[t].pc = "lockA"
        /\ mu[LockA_of(t)].w = t2
        /\ t2 # t

====
